---------------------------- MODULE Spec2Model ----------------------------
(***************************************************************************)
(* SOC Assistant: threat-intel provider lookups with their process-wide    *)
(* caches, the analysis handler of app.py (label ladder, top-K selection,  *)
(* enrichment loop), and the column canonicalizer / feature aligner of     *)
(* utils/feature_engineering.py.                                           *)
(***************************************************************************)
EXTENDS Integers, Sequences, FiniteSets, TLC

VARIABLES
    _CACHE,     \* provider |-> dict ip -> entry  (api/abuseipdb.py:6, api/virustotal.py:6)
    environ,    \* os.environ restricted to the two credential variables
    netCalls,   \* instrumentation: provider |-> ip |-> number of requests.get calls
    firstRes,   \* instrumentation: provider |-> ip |-> what the first lookup returned
    lastCall,   \* instrumentation: the most recent provider lookup
    \* the "Run Analysis" handler of app.py, from the classified table on
    result_df,      \* rows with risk_score, source_ip, destination_ip (app.py:109-111)
    enable_enrich,  \* sidebar checkbox (app.py:52)
    max_enrich,     \* sidebar number (app.py:53)
    pc,             \* where the handler is: "select", "loop", "done"
    top_idx,        \* app.py:116
    i,              \* loop counter of app.py:120, the row being enriched
    ip_field,       \* loop position of app.py:127: 1 = source_ip, 2 = destination_ip
    row_info,       \* app.py:121, the row's record under construction
    enriched_rows,  \* app.py:114
    processed,      \* instrumentation: the positions of the rows the loop has taken, in order
    varied,         \* the provider whose credential, responses and cache the second run varies
    shadow,         \* the second run: its caches, environment, row_info and enriched_rows
    \* the label mapping of the handler (app.py:94-107)
    probs,          \* predict_batch's probability matrix, one row of three per record
    preds,          \* predict_batch's arg-max labels
    risk_scores,    \* app.py:98
    labels,         \* app.py:97
    label_pc,       \* "predict", "map", "done"
    \* the upload path of app.py (app.py:68-78)
    raw_df,         \* app.py:70
    user_df,        \* app.py:71
    canon_pc,       \* "uploaded", "canonical"
    \* the feature alignment of predict_batch (model/predict.py:22-23)
    processed_df,         \* the caller's feature table
    model_feature_names,  \* model.feature_names
    aligned,              \* predict.py:23, X
    realigned,            \* X aligned once more against the same names
    align_pc,             \* "given", "aligned", "realigned"
    \* the recommendations of the handler (app.py:154)
    classification,       \* result_df["classification"], one label per row
    recs,                 \* app.py:154
    rec_pc,               \* "classified", "recommended"
    \* script threads of one process inside the provider functions
    thread                \* thread |-> where it is in the function and its locals

provVars == <<_CACHE, environ, netCalls, firstRes, lastCall>>
appVars == <<result_df, enable_enrich, max_enrich, pc, top_idx, i, ip_field, row_info,
             enriched_rows, processed, varied, shadow>>

labelVars == <<probs, preds, risk_scores, labels, label_pc>>

canonVars == <<raw_df, user_df, canon_pc>>

alignVars == <<processed_df, model_feature_names, aligned, realigned, align_pc>>

recVars == <<classification, recs, rec_pc>>

concVars == <<thread>>

vars == <<provVars, appVars, labelVars, canonVars, alignVars, recVars, concVars>>

\* what the actions of one part leave alone
notProv == <<appVars, labelVars, canonVars, alignVars, recVars, concVars>>
notApp == <<labelVars, canonVars, alignVars, recVars, concVars>>
notLabel == <<provVars, appVars, canonVars, alignVars, recVars, concVars>>
notCanon == <<provVars, appVars, labelVars, alignVars, recVars, concVars>>
notAlign == <<provVars, appVars, labelVars, canonVars, recVars, concVars>>
notRec == <<provVars, appVars, labelVars, canonVars, alignVars, concVars>>
notConc == <<appVars, labelVars, canonVars, alignVars, recVars>>

-----------------------------------------------------------------------------
(* Bounds *)

\* a provider lookup that would issue more than this many requests for one ip is not taken
MaxCalls == 2

\* rows of the classified table when the top-K selection is explored
MaxRows == 3

\* rows of the classified table when the two providers are compared
MaxIpRows == 2

\* records of the batch whose probabilities are mapped to labels
MaxBatch == 2

\* columns of an uploaded table
MaxCols == 2

\* columns of a feature table, and names of an expected-name list
MaxFeatures == 2

\* rows of a feature table
MaxFeatureRows == 1

\* rows of the classified table that recommendations are drawn from
MaxRecRows == 4

\* lookups one script thread makes while the threads run side by side
MaxThreadCalls == 1

-----------------------------------------------------------------------------
(* Values *)

\* Python's None (argument, os.getenv result, dict.get default)
None == "<None>"

\* mutant: only None counts as no ip, the empty string is looked up
FalsyNoneOnly(x) == x = None

\* truthiness of an Optional[str]: `not x` holds for None and for ""
Falsy(x) == x = None \/ x = ""

ABUSE == "abuseipdb"
VT == "virustotal"
Providers == {ABUSE, VT}

ABUSE_KEY == "ABUSEIPDB_API_KEY"
VT_KEY == "VT_API_KEY"
EnvNames == {ABUSE_KEY, VT_KEY}
EnvValues == {None, "", "secret"}

\* the ip strings of the sidebar defaults (app.py:41,44)
IPs == {"10.0.0.5", "185.199.108.153"}
IpArgs == IPs \cup {"", None}

\* what requests.get can do: raise, or hand back a response; resp.json() of a
\* 200 response either raises ("invalid") or is a document ("full", or "empty"
\* when the consumed path is missing); the body of another response is not read
NonOkCodes == {404, 429}
Bodies == {"invalid", "empty", "full"}
NetOutcomes ==
    {[kind |-> "raise", msg |-> "timed out", status_code |-> 0, body |-> ""]}
    \cup [kind : {"resp"}, msg : {""}, status_code : {200}, body : Bodies]
    \cup [kind : {"resp"}, msg : {""}, status_code : NonOkCodes, body : {""}]

\* the lookup that issued no request saw no outcome
NoNet == [kind |-> "none", msg |-> "", status_code |-> 0, body |-> ""]

\* f"http_{resp.status_code}"
HttpStatus(code) == "http_" \o ToString(code)

\* dict assignment d[k] = v
Store(d, k, v) == [x \in DOMAIN d \cup {k} |-> IF x = k THEN v ELSE d[x]]

EmptyDict == [x \in {} |-> None]

\* what one call of a provider function did: the entry returned (or the
\* exception that left it), the cache afterwards, whether requests.get was
\* called and whether os.getenv was called
Returned(res, cache, getenv, net) ==
    [raised |-> FALSE, ret |-> res, exc |-> "", cache |-> cache, getenv |-> getenv, net |-> net]
Raised(msg, cache, getenv, net) ==
    [raised |-> TRUE, ret |-> [status |-> "<raised>"], exc |-> msg, cache |-> cache,
     getenv |-> getenv, net |-> net]

-----------------------------------------------------------------------------
(* api/abuseipdb.py *)

\* resp.json().get("data", {}) and the three data.get(...) of lines 25-31
AbuseOkEntry(body) ==
    IF body = "full"
    THEN [status |-> "ok", abuseConfidenceScore |-> "100", totalReports |-> "7",
          isWhitelisted |-> "False"]
    ELSE [status |-> "ok", abuseConfidenceScore |-> None, totalReports |-> None,
          isWhitelisted |-> None]

\* lines 21-36, the body of the try: the entry it builds, or the exception
AbuseTry(net) ==
    IF net.kind = "raise" THEN [exc |-> TRUE, msg |-> net.msg, res |-> [status |-> ""]]
    ELSE IF net.status_code = 200
    THEN IF net.body = "invalid"
         THEN [exc |-> TRUE, msg |-> "Expecting value", res |-> [status |-> ""]]
         ELSE [exc |-> FALSE, msg |-> "", res |-> AbuseOkEntry(net.body)]
    ELSE [exc |-> FALSE, msg |-> "", res |-> [status |-> HttpStatus(net.status_code)]]

\* mutant: the error entry is returned but not cached, so the ip is retried
AbuseExceptNotCached(msg, ip, cache) ==
    Returned([status |-> "error", error |-> msg], cache, TRUE, TRUE)

\* lines 37-40, except Exception as e
AbuseExcept(msg, ip, cache) ==
    LET res == [status |-> "error", error |-> msg]
    IN Returned(res, Store(cache, ip, res), TRUE, TRUE)

\* lines 16-19, the branch without a credential
AbuseNoKey(ip, cache) ==
    LET res == [status |-> "no_key"]
    IN Returned(res, Store(cache, ip, res), TRUE, FALSE)

\* lines 9-40
enrich_ip_with_abuseipdb(ip, cache, env, net) ==
    IF Falsy(ip) THEN Returned([status |-> "no_ip"], cache, FALSE, FALSE)
    ELSE IF ip \in DOMAIN cache THEN Returned(cache[ip], cache, FALSE, FALSE)
    ELSE LET api_key == env[ABUSE_KEY] IN
         IF Falsy(api_key) THEN AbuseNoKey(ip, cache)
         ELSE LET t == AbuseTry(net) IN
              IF t.exc THEN AbuseExcept(t.msg, ip, cache)
              ELSE Returned(t.res, Store(cache, ip, t.res), TRUE, TRUE)

-----------------------------------------------------------------------------
(* api/virustotal.py *)

\* resp.json() and the .get chain of lines 24-31
VtOkEntry(body) ==
    IF body = "full"
    THEN [status |-> "ok", malicious |-> "3", suspicious |-> "1", harmless |-> "60"]
    ELSE [status |-> "ok", malicious |-> None, suspicious |-> None, harmless |-> None]

\* lines 21-36, the body of the try
VtTry(net) ==
    IF net.kind = "raise" THEN [exc |-> TRUE, msg |-> net.msg, res |-> [status |-> ""]]
    ELSE IF net.status_code = 200
    THEN IF net.body = "invalid"
         THEN [exc |-> TRUE, msg |-> "Expecting value", res |-> [status |-> ""]]
         ELSE [exc |-> FALSE, msg |-> "", res |-> VtOkEntry(net.body)]
    ELSE [exc |-> FALSE, msg |-> "", res |-> [status |-> HttpStatus(net.status_code)]]

\* mutant: the handler lets the exception out
VtExceptReraise(msg, ip, cache) ==
    Raised(msg, cache, TRUE, TRUE)

\* lines 37-40, except Exception as e
VtExcept(msg, ip, cache) ==
    LET res == [status |-> "error", error |-> msg]
    IN Returned(res, Store(cache, ip, res), TRUE, TRUE)

\* mutant: the no_key entry is returned but not cached
VtNoKeyNotCached(ip, cache) ==
    Returned([status |-> "no_key"], cache, TRUE, FALSE)

\* lines 16-19, the branch without a credential
VtNoKey(ip, cache) ==
    LET res == [status |-> "no_key"]
    IN Returned(res, Store(cache, ip, res), TRUE, FALSE)

\* lines 9-40
enrich_ip_with_virustotal(ip, cache, env, net) ==
    IF Falsy(ip) THEN Returned([status |-> "no_ip"], cache, FALSE, FALSE)
    ELSE IF ip \in DOMAIN cache THEN Returned(cache[ip], cache, FALSE, FALSE)
    ELSE LET api_key == env[VT_KEY] IN
         IF Falsy(api_key) THEN VtNoKey(ip, cache)
         ELSE LET t == VtTry(net) IN
              IF t.exc THEN VtExcept(t.msg, ip, cache)
              ELSE Returned(t.res, Store(cache, ip, t.res), TRUE, TRUE)

-----------------------------------------------------------------------------
(* Sequential provider lookups within one process *)

NoCall == [fn |-> "none"]

\* the bookkeeping of one lookup of `ip` at provider `p` whose call did `r`
Record(p, ip, net, r) ==
    /\ _CACHE' = [_CACHE EXCEPT ![p] = r.cache]
    /\ netCalls' = IF r.net
                   THEN [netCalls EXCEPT ![p] = Store(@, ip,
                            (IF ip \in DOMAIN @ THEN @[ip] ELSE 0) + 1)]
                   ELSE netCalls
    /\ firstRes' = IF Falsy(ip) \/ ip \in DOMAIN firstRes[p] \/ r.raised
                   THEN firstRes
                   ELSE [firstRes EXCEPT ![p] = Store(@, ip, r.ret)]
    /\ lastCall' = [fn |-> p, ip |-> ip, net |-> IF r.net THEN net ELSE NoNet,
                    seen |-> ip \in DOMAIN firstRes[p],
                    cached |-> ip \in DOMAIN _CACHE[p],
                    key |-> environ[IF p = ABUSE THEN ABUSE_KEY ELSE VT_KEY],
                    raised |-> r.raised, exc |-> r.exc, ret |-> r.ret,
                    called |-> r.net, getenv |-> r.getenv]

Calls(p, ip) == IF ip \in DOMAIN netCalls[p] THEN netCalls[p][ip] ELSE 0

LookupAbuse(ip, net) ==
    /\ Calls(ABUSE, ip) < MaxCalls
    /\ Record(ABUSE, ip, net, enrich_ip_with_abuseipdb(ip, _CACHE[ABUSE], environ, net))
    /\ UNCHANGED environ
    /\ UNCHANGED notProv

LookupVT(ip, net) ==
    /\ Calls(VT, ip) < MaxCalls
    /\ Record(VT, ip, net, enrich_ip_with_virustotal(ip, _CACHE[VT], environ, net))
    /\ UNCHANGED environ
    /\ UNCHANGED notProv

\* app.py:15, executed again on every rerun of the script: variables of the
\* .env file are set unless the process environment already has them
load_dotenv(file) ==
    /\ environ' = [k \in EnvNames |-> IF environ[k] /= None THEN environ[k] ELSE file[k]]
    /\ environ' /= environ
    /\ UNCHANGED <<_CACHE, netCalls, firstRes, lastCall>>
    /\ UNCHANGED notProv

ProvInit ==
    /\ _CACHE = [p \in Providers |-> EmptyDict]
    /\ environ \in [EnvNames -> EnvValues]
    /\ netCalls = [p \in Providers |-> EmptyDict]
    /\ firstRes = [p \in Providers |-> EmptyDict]
    /\ lastCall = NoCall



-----------------------------------------------------------------------------
(* app.py, "Run Analysis": top-K selection and the enrichment loop *)

Min(a, b) == IF a <= b THEN a ELSE b

\* all orders of the positions 1..n
Orderings(n) == {s \in [1..n -> 1..n] : \A a, b \in 1..n : a /= b => s[a] /= s[b]}

\* the order of a stable descending sort of vals: ties keep their positions
StableDescending(vals) ==
    CHOOSE s \in Orderings(Len(vals)) :
        \A a, b \in 1..Len(vals) :
            a < b => \/ vals[s[a]] > vals[s[b]]
                     \/ (vals[s[a]] = vals[s[b]] /\ s[a] < s[b])

\* Series.nlargest(n), keep="first", as pandas computes it (the positions it
\* returns, in order).  n <= 0 gives nothing.  n < len takes the fast path: the
\* values not below the n-th largest, ordered by a mergesort argsort (stable),
\* cut to n.  n >= len takes the slow path,
\* sort_values(ascending=False).head(n), whose sort is numpy's quicksort: not
\* stable, the order of equal values is whatever the build's sort leaves.
nlargest(vals, n) ==
    IF n <= 0 THEN {<<>>}
    ELSE IF n >= Len(vals)
    THEN {s \in Orderings(Len(vals)) :
             \A a, b \in 1..Len(vals) : a < b => vals[s[a]] >= vals[s[b]]}
    ELSE {SubSeq(StableDescending(vals), 1, n)}

\* result_df["risk_score"]
RiskColumn(df) == [k \in 1..Len(df) |-> df[k].risk_score]

Fields == <<"source_ip", "destination_ip">>

\* row.get(ip_field)
RowGet(row, field) == IF field = "source_ip" THEN row.source_ip ELSE row.destination_ip

\* row.get(ip_field, "") of app.py:122-123: the columns exist, so the value is the cell
NewRowInfo(row) ==
    [source_ip |-> row.source_ip, destination_ip |-> row.destination_ip,
     vt |-> EmptyDict, abuse |-> EmptyDict]

\* app.py:129, isinstance(ip, str) and len(ip) > 0
IsNonEmptyStr(ip) == ip /= None /\ ip /= ""

\* mutant: the two provider modules share one cache dict
LookupBothSharedCache(ip, caches, env, netVt, netAb) ==
    LET v == enrich_ip_with_virustotal(ip, caches[VT], env, netVt)
        a == enrich_ip_with_abuseipdb(ip, v.cache, env, netAb)
    IN [raised |-> v.raised \/ a.raised, vt |-> v.ret, ab |-> a.ret,
        caches |-> [p \in Providers |-> a.cache]]

\* app.py:130-131, the two lookups of one ip: virustotal first, then abuseipdb
LookupBoth(ip, caches, env, netVt, netAb) ==
    LET v == enrich_ip_with_virustotal(ip, caches[VT], env, netVt)
        a == enrich_ip_with_abuseipdb(ip, caches[ABUSE], env, netAb)
    IN [raised |-> v.raised \/ a.raised, vt |-> v.ret, ab |-> a.ret,
        caches |-> [p \in Providers |-> IF p = VT THEN v.cache ELSE a.cache]]

\* app.py:127-133, one pass of the inner loop for one run: the row_info and the
\* caches after it
FieldStep(info, row, field, caches, env, netVt, netAb) ==
    LET ip == RowGet(row, field) IN
    IF IsNonEmptyStr(ip)
    THEN LET r == LookupBoth(ip, caches, env, netVt, netAb) IN
         [raised |-> r.raised,
          info |-> [info EXCEPT !.vt = Store(@, field, r.vt),
                                !.abuse = Store(@, field, r.ab)],
          caches |-> r.caches]
    ELSE [raised |-> FALSE, info |-> info, caches |-> caches]

\* app.py:113-119 (and 137-138 when nothing is enriched)
SelectTopK ==
    /\ pc = "select"
    /\ IF enable_enrich /\ max_enrich > 0 /\ Len(result_df) > 0
       THEN /\ \E t \in nlargest(RiskColumn(result_df), Min(max_enrich, Len(result_df))) :
                  top_idx' = t
            /\ pc' = "loop"
       ELSE /\ top_idx' = <<>>
            /\ pc' = "done"
    /\ i' = 1
    /\ ip_field' = 1
    /\ enriched_rows' = <<>>
    /\ shadow' = [shadow EXCEPT !.enriched_rows = <<>>]
    /\ UNCHANGED <<result_df, enable_enrich, max_enrich, row_info, processed, varied>>
    /\ UNCHANGED provVars
    /\ UNCHANGED notApp

\* app.py:120-136, one ip_field of the current row, in the run and in the second
\* run; the second run sees the same outcome at the provider that is not varied
EnrichField(netVt, netAb, netAlt) ==
    /\ pc = "loop"
    /\ i <= Len(top_idx)
    /\ LET row == result_df[top_idx[i]]
           field == Fields[ip_field]
           info == IF ip_field = 1 THEN NewRowInfo(row) ELSE row_info
           info2 == IF ip_field = 1 THEN NewRowInfo(row) ELSE shadow.row_info
       IN \E r \in {FieldStep(info, row, field, _CACHE, environ, netVt, netAb)},
             r2 \in {FieldStep(info2, row, field, shadow.cache, shadow.environ,
                               IF varied = VT THEN netAlt ELSE netVt,
                               IF varied = ABUSE THEN netAlt ELSE netAb)} :
          /\ _CACHE' = r.caches
          /\ processed' = IF ip_field = 1 THEN Append(processed, top_idx[i]) ELSE processed
          /\ IF r.raised \/ r2.raised
             THEN /\ pc' = "raised"
                  /\ UNCHANGED <<i, ip_field, row_info, enriched_rows>>
                  /\ shadow' = [shadow EXCEPT !.cache = r2.caches]
             ELSE /\ row_info' = r.info
                  /\ IF ip_field = 1
                     THEN /\ ip_field' = 2
                          /\ UNCHANGED <<i, enriched_rows, pc>>
                          /\ shadow' = [shadow EXCEPT !.cache = r2.caches,
                                                      !.row_info = r2.info]
                     ELSE /\ ip_field' = 1
                          /\ i' = i + 1
                          /\ enriched_rows' = Append(enriched_rows, r.info)
                          /\ pc' = IF i = Len(top_idx) THEN "done" ELSE "loop"
                          /\ shadow' = [shadow EXCEPT
                                           !.cache = r2.caches,
                                           !.row_info = r2.info,
                                           !.enriched_rows = Append(@, r2.info)]
    /\ UNCHANGED <<result_df, enable_enrich, max_enrich, top_idx, varied>>
    /\ UNCHANGED <<environ, netCalls, firstRes, lastCall>>
    /\ UNCHANGED notApp

\* the outcomes of requests.get the enrichment loop is explored with: a failure
\* and a response
LoopOutcomes == {n \in NetOutcomes : n.kind = "raise" \/ n.body = "full"}

RiskLevels == {49999, 50000, 80000}

NoInfo == [source_ip |-> None, destination_ip |-> None, vt |-> EmptyDict, abuse |-> EmptyDict]

\* tables without ip columns' values (row.get gives None), every risk order
RiskTables ==
    UNION {[1..n -> [risk_score : RiskLevels, source_ip : {None}, destination_ip : {None}]]
             : n \in 0..MaxRows}

\* tables of equal risk with ip cells: a string, an empty string, or no value
IpRows ==
    {[risk_score |-> 80000, source_ip |-> e[1], destination_ip |-> e[2]] :
        e \in {<<"10.0.0.5", "185.199.108.153">>, <<"10.0.0.5", "">>, <<None, "10.0.0.5">>}}
IpTables == UNION {[1..n -> IpRows] : n \in 1..MaxIpRows}

\* a cache as an earlier run of the handler in this process may have left it
EarlierCaches == {EmptyDict, Store(EmptyDict, "10.0.0.5", [status |-> "error", error |-> "timed out"])}

AppStart ==
    /\ pc = "select"
    /\ top_idx = <<>>
    /\ i = 1
    /\ ip_field = 1
    /\ row_info = NoInfo
    /\ enriched_rows = <<>>
    /\ processed = <<>>

\* the second run starts from the same state
SameStart ==
    shadow = [cache |-> _CACHE, environ |-> environ, row_info |-> NoInfo, enriched_rows |-> <<>>]

TopKInit ==
    /\ result_df \in RiskTables
    /\ enable_enrich \in BOOLEAN
    /\ max_enrich \in 0..(MaxRows + 1)
    /\ _CACHE = [p \in Providers |-> EmptyDict]
    /\ environ = [k \in EnvNames |-> None]
    /\ varied = VT
    /\ SameStart

\* the two runs share the table, the selection and everything of the provider
\* that is not varied; at the varied provider the run has a credential and an
\* empty cache, the second run may have neither
PairInit ==
    /\ result_df \in IpTables
    /\ enable_enrich = TRUE
    /\ max_enrich = 20
    /\ varied \in Providers
    /\ \E c \in EarlierCaches, k \in {None, "secret"} :
          LET other == IF varied = VT THEN ABUSE ELSE VT
              otherKey == IF varied = VT THEN ABUSE_KEY ELSE VT_KEY
          IN /\ _CACHE = [p \in Providers |-> IF p = other THEN c ELSE EmptyDict]
             /\ environ = [n \in EnvNames |-> IF n = otherKey THEN k ELSE "secret"]
    /\ \E c \in EarlierCaches, k \in {None, "secret"} :
          shadow = [cache |-> [_CACHE EXCEPT ![varied] = c],
                    environ |-> [environ EXCEPT ![IF varied = VT THEN VT_KEY ELSE ABUSE_KEY] = k],
                    row_info |-> NoInfo, enriched_rows |-> <<>>]


-----------------------------------------------------------------------------
(* model/predict.py predict_batch and app.py "Map to labels" *)
(* Probabilities and risk scores are counted in units of 0.00001.          *)

LABELS == <<"benign", "suspicious", "malicious">>

\* risk >= 0.8 (app.py:102) and risk >= 0.5 (app.py:104)
MALICIOUS_FROM == 80000
SUSPICIOUS_FROM == 50000

\* rows predict_proba can return: three class probabilities that sum to 1
ProbGrid == {0, 20000, 20001, 30001, 49999, 50000, 79999, 80000, 100000}
ProbRows == {pr \in ProbGrid \X ProbGrid \X ProbGrid : pr[1] + pr[2] + pr[3] = 100000}
ProbMatrices == UNION {[1..n -> ProbRows] : n \in 1..MaxBatch}

\* pr.max()
RowMax(pr) == CHOOSE m \in {pr[k] : k \in 1..3} : \A k \in 1..3 : pr[k] <= m

\* probs.argmax(axis=1): the first position of the maximum
ArgMax(pr) == CHOOSE k \in 1..3 : pr[k] = RowMax(pr) /\ \A j \in 1..(k - 1) : pr[j] < pr[k]

\* mutant: the malicious threshold is exclusive
LabelOfExclusive(risk) ==
    IF risk > MALICIOUS_FROM THEN "malicious"
    ELSE IF risk >= SUSPICIOUS_FROM THEN "suspicious"
    ELSE "benign"

\* app.py:102-107, the threshold ladder
LabelOf(risk) ==
    IF risk >= MALICIOUS_FROM THEN "malicious"
    ELSE IF risk >= SUSPICIOUS_FROM THEN "suspicious"
    ELSE "benign"

\* predict.py:22-27: the classifier's matrix (any) and the arg-max labels
predict_batch(matrix) ==
    /\ label_pc = "predict"
    /\ probs' = matrix
    /\ preds' = [k \in 1..Len(matrix) |-> LABELS[ArgMax(matrix[k])]]
    /\ label_pc' = "map"
    /\ UNCHANGED <<risk_scores, labels>>
    /\ UNCHANGED notLabel

\* app.py:96-107, the loop over zip(preds, probs)
MapToLabels ==
    /\ label_pc = "map"
    /\ risk_scores' = [k \in 1..Len(probs) |-> RowMax(probs[k])]
    /\ labels' = [k \in 1..Len(probs) |-> LabelOf(RowMax(probs[k]))]
    /\ label_pc' = "done"
    /\ UNCHANGED <<probs, preds>>
    /\ UNCHANGED notLabel

LabelStart ==
    /\ probs = <<>>
    /\ preds = <<>>
    /\ risk_scores = <<>>
    /\ labels = <<>>
    /\ label_pc = "predict"

LabelIdle ==
    /\ probs = <<>>
    /\ preds = <<>>
    /\ risk_scores = <<>>
    /\ labels = <<>>
    /\ label_pc = "idle"

-----------------------------------------------------------------------------
(* utils/feature_engineering.py canonicalize_columns *)
(* A table is its row count and its columns in order; a column is its name *)
(* and `data`, the position of the input column whose values it holds.     *)

\* lines 22-81, in the order the dict lists them
ALIASES == <<
    <<"@timestamp", "timestamp">>,
    <<"time", "timestamp">>,
    <<"date", "timestamp">>,
    <<"datetime", "timestamp">>,
    <<"date_time", "timestamp">>,
    <<"event_time", "timestamp">>,
    <<"event_time_utc", "timestamp">>,
    <<"timestamp_utc", "timestamp">>,
    <<"timecreated", "timestamp">>,
    <<"eventreceivedtime", "timestamp">>,
    <<"event_received_time", "timestamp">>,
    <<"log_time", "timestamp">>,
    <<"logtime", "timestamp">>,
    <<"created", "timestamp">>,
    <<"recorded_time", "timestamp">>,
    <<"recordtime", "timestamp">>,
    <<"src", "source_ip">>,
    <<"src_ip", "source_ip">>,
    <<"sip", "source_ip">>,
    <<"source", "source_ip">>,
    <<"sourceaddress", "source_ip">>,
    <<"source_address", "source_ip">>,
    <<"dst", "destination_ip">>,
    <<"dst_ip", "destination_ip">>,
    <<"dip", "destination_ip">>,
    <<"destination", "destination_ip">>,
    <<"destinationaddress", "destination_ip">>,
    <<"destination_address", "destination_ip">>,
    <<"event", "event_type">>,
    <<"eventid", "event_type">>,
    <<"event_id", "event_type">>,
    <<"eventtype", "event_type">>,
    <<"eventname", "event_type">>,
    <<"event_name", "event_type">>,
    <<"eventcode", "event_type">>,
    <<"event_code", "event_type">>,
    <<"provider", "event_type">>,
    <<"task", "event_type">>,
    <<"opcode", "event_type">>,
    <<"user", "username">>,
    <<"user_name", "username">>,
    <<"useraccount", "username">>,
    <<"user_account", "username">>,
    <<"account", "username">>,
    <<"accountname", "username">>,
    <<"account_name", "username">>,
    <<"subjectusername", "username">>,
    <<"subject_user_name", "username">>,
    <<"logon_account", "username">>,
    <<"result", "status">>,
    <<"outcome", "status">>,
    <<"action", "status">>
>>

\* the column names the uploaded tables are built from, letter by letter
Spelling ==
    ("Source IP" :> <<"S", "o", "u", "r", "c", "e", " ", "I", "P">>)
    @@ (" SRC " :> <<" ", "S", "R", "C", " ">>)
    @@ ("src" :> <<"s", "r", "c">>)
    @@ ("sip" :> <<"s", "i", "p">>)
    @@ ("source_ip" :> <<"s", "o", "u", "r", "c", "e", "_", "i", "p">>)
    @@ ("dst-ip" :> <<"d", "s", "t", "-", "i", "p">>)
    @@ ("note" :> <<"n", "o", "t", "e">>)
RawNames == DOMAIN Spelling

UpperCase == <<"A", "B", "C", "D", "E", "F", "G", "H", "I", "J", "K", "L", "M", "N", "O", "P", "Q", "R", "S", "T", "U", "V", "W", "X", "Y", "Z">>
LowerCase == <<"a", "b", "c", "d", "e", "f", "g", "h", "i", "j", "k", "l", "m", "n", "o", "p", "q", "r", "s", "t", "u", "v", "w", "x", "y", "z">>

\* str.lower() on one character
Lower(c) ==
    IF \E k \in 1..Len(UpperCase) : UpperCase[k] = c
    THEN LowerCase[CHOOSE k \in 1..Len(UpperCase) : UpperCase[k] = c]
    ELSE c

\* str.strip(): leading and trailing blanks go
RECURSIVE LStrip(_)
LStrip(cs) == IF cs /= <<>> /\ Head(cs) = " " THEN LStrip(Tail(cs)) ELSE cs
RECURSIVE RStrip(_)
RStrip(cs) == IF cs /= <<>> /\ cs[Len(cs)] = " " THEN RStrip(SubSeq(cs, 1, Len(cs) - 1)) ELSE cs
Strip(cs) == RStrip(LStrip(cs))

\* str.replace(old, "_") for a one-character old
Replace(cs, old) == [k \in 1..Len(cs) |-> IF cs[k] = old THEN "_" ELSE cs[k]]

RECURSIVE JoinChars(_)
JoinChars(cs) == IF cs = <<>> THEN "" ELSE Head(cs) \o JoinChars(Tail(cs))

\* mutant: hyphens are not replaced
NormalizeNoHyphen(c) ==
    LET stripped == Strip(Spelling[c])
        lowered == [k \in 1..Len(stripped) |-> Lower(stripped[k])]
    IN JoinChars(Replace(lowered, " "))

\* line 115: str(c).strip().lower().replace(" ", "_").replace("-", "_")
Normalize(c) ==
    LET stripped == Strip(Spelling[c])
        lowered == [k \in 1..Len(stripped) |-> Lower(stripped[k])]
    IN JoinChars(Replace(Replace(lowered, " "), "-"))

\* new_df.columns as a set of labels
Columns(cols) == {cols[k].name : k \in 1..Len(cols)}

\* DataFrame.rename(columns={old: new}): every column labelled old is relabelled
Rename(cols, old, new) ==
    [k \in 1..Len(cols) |-> IF cols[k].name = old THEN [cols[k] EXCEPT !.name = new] ELSE cols[k]]

\* mutant: the alias is renamed even when the target is already a column
AliasStepOverwrite(cols, alias, target) ==
    IF alias \in Columns(cols) THEN Rename(cols, alias, target) ELSE cols

\* lines 121-122, one pass of the alias loop
AliasStep(cols, alias, target) ==
    IF alias \in Columns(cols) /\ target \notin Columns(cols)
    THEN Rename(cols, alias, target)
    ELSE cols

\* lines 120-122, the alias loop over the entries lo..hi in order: the loop
\* over the first half of them, and on the table it leaves, the loop over the
\* rest
RECURSIVE ApplyAliases(_, _, _)
ApplyAliases(cols, lo, hi) ==
    IF lo > hi THEN cols
    ELSE IF lo = hi THEN AliasStep(cols, ALIASES[lo][1], ALIASES[lo][2])
    ELSE CHOOSE after \in {ApplyAliases(half, (lo + hi) \div 2 + 1, hi) :
                              half \in {ApplyAliases(cols, lo, (lo + hi) \div 2)}} : TRUE

\* DataFrame.empty: no rows or no columns
Empty(df) == df.nrows = 0 \/ Len(df.cols) = 0

\* lines 107-123 (df is never None where app.py calls it)
canonicalize_columns(df) ==
    IF Empty(df) THEN df
    ELSE LET renamed == [k \in 1..Len(df.cols) |->
                            [df.cols[k] EXCEPT !.name = Normalize(df.cols[k].name)]]
         IN [df EXCEPT !.cols = ApplyAliases(renamed, 1, Len(ALIASES))]

\* uploaded tables: distinct header names (read_csv keeps them distinct), with
\* or without a row
NameLists ==
    UNION {{s \in [1..n -> RawNames] : \A a, b \in 1..n : a /= b => s[a] /= s[b]}
             : n \in 0..MaxCols}
RawTables ==
    {[nrows |-> r, cols |-> [k \in 1..Len(s) |-> [name |-> s[k], data |-> k]]] :
        r \in 0..1, s \in NameLists}

NoTable == [nrows |-> 0, cols |-> <<>>]

\* app.py:70-71, raw_df = pd.read_csv(uploaded); user_df = canonicalize_columns(raw_df)
Canonicalize ==
    /\ canon_pc = "uploaded"
    /\ user_df' = canonicalize_columns(raw_df)
    /\ canon_pc' = "canonical"
    /\ UNCHANGED raw_df
    /\ UNCHANGED notCanon

CanonStart ==
    /\ raw_df \in RawTables
    /\ user_df = NoTable
    /\ canon_pc = "uploaded"

CanonIdle ==
    /\ raw_df = NoTable
    /\ user_df = NoTable
    /\ canon_pc = "idle"

-----------------------------------------------------------------------------
(* utils/feature_engineering.py align_features *)
(* A feature table is its row count and its columns in order; a column is  *)
(* its name and its cells, one per row; a cell is a number or NaN.         *)

Num(v) == [null |-> FALSE, v |-> v]
NaN == [null |-> TRUE, v |-> 0]
Cells == {NaN, Num(0), Num(1)}

\* column names of feature tables: a base feature and two one-hot columns
FeatureNames == {"hour", "status_failed", "status_ok"}

\* X.columns
FrameColumns(X) == {X.cols[k].name : k \in 1..Len(X.cols)}

\* line 172, X[col] = 0: a new last column holding 0 in every row
SetZero(X, col) ==
    [X EXCEPT !.cols = Append(X.cols, [name |-> col, cells |-> [r \in 1..X.nrows |-> Num(0)]])]

\* lines 170-172, the loop over the first n names
RECURSIVE AddMissing(_, _, _)
AddMissing(X, feature_names, n) ==
    IF n = 0 THEN X
    ELSE LET before == AddMissing(X, feature_names, n - 1)
             col == feature_names[n]
         IN IF col \notin FrameColumns(before) THEN SetZero(before, col) ELSE before

\* the column of X labelled col (labels are distinct)
ColumnOf(X, col) == X.cols[CHOOSE k \in 1..Len(X.cols) : X.cols[k].name = col]

\* mutant: no column is dropped or moved
SelectAll(X, feature_names) == X

\* line 174, X[feature_names]: the listed columns in the listed order
Select(X, feature_names) ==
    [X EXCEPT !.cols = [k \in 1..Len(feature_names) |-> ColumnOf(X, feature_names[k])]]

\* line 175, X.fillna(0)
FillNa(X) ==
    [X EXCEPT !.cols = [k \in 1..Len(X.cols) |->
        [X.cols[k] EXCEPT !.cells = [r \in 1..X.nrows |->
            IF X.cols[k].cells[r].null THEN Num(0) ELSE X.cols[k].cells[r]]]]]

\* mutant: without the copy of line 169 the insertions of line 172 land in the
\* caller's frame
CallerFrameShared(X, work) == work

\* line 169, X = X.copy(): lines 170-172 work on a frame of their own and the
\* caller's frame is as it was
CallerFrame(X, work) == X

\* lines 168-176; ret is the returned frame, arg the caller's frame after the call
align_features(X, feature_names) ==
    LET work == AddMissing(X, feature_names, Len(feature_names))
    IN [ret |-> FillNa(Select(work, feature_names)), arg |-> CallerFrame(X, work)]

\* sequences of distinct names, as DataFrame.columns of preprocess_dataframe's
\* output and model.feature_names = list(X.columns) are (train_model.py:15, 60)
DistinctNames ==
    UNION {{s \in [1..n -> FeatureNames] : \A a, b \in 1..n : a /= b => s[a] /= s[b]}
             : n \in 0..MaxFeatures}

FeatureTables ==
    UNION {{[nrows |-> rows, cols |-> [k \in 1..Len(s) |-> [name |-> s[k], cells |-> c[k]]]] :
               c \in [1..Len(s) -> [1..rows -> Cells]]}
             : rows \in 0..MaxFeatureRows, s \in DistinctNames}

NoFrame == [nrows |-> 0, cols |-> <<>>]

\* predict.py:23, X = align_features(processed_df, model.feature_names)
Align ==
    /\ align_pc = "given"
    /\ \E r \in {align_features(processed_df, model_feature_names)} :
          /\ aligned' = r.ret
          /\ processed_df' = r.arg
    /\ align_pc' = "aligned"
    /\ UNCHANGED <<model_feature_names, realigned>>
    /\ UNCHANGED notAlign

\* align_features applied to the aligned table and the same names
AlignAgain ==
    /\ align_pc = "aligned"
    /\ \E r \in {align_features(aligned, model_feature_names)} :
          /\ realigned' = r.ret
          /\ aligned' = r.arg
    /\ align_pc' = "realigned"
    /\ UNCHANGED <<model_feature_names, processed_df>>
    /\ UNCHANGED notAlign

AlignStart ==
    /\ processed_df \in FeatureTables
    /\ model_feature_names \in DistinctNames
    /\ aligned = NoFrame
    /\ realigned = NoFrame
    /\ align_pc = "given"

AlignIdle ==
    /\ processed_df = NoFrame
    /\ model_feature_names = <<>>
    /\ aligned = NoFrame
    /\ realigned = NoFrame
    /\ align_pc = "idle"

-----------------------------------------------------------------------------
(* utils/recommendations.py recommend_actions *)

ISOLATE == "Isolate affected hosts or user accounts immediately."
BLOCK == "Block malicious IPs/domains at firewall and proxy."
FORENSICS == "Collect forensic artifacts (memory, disk, logs)."
MONITOR == "Increase monitoring and enable detailed logging for affected entities."
VALIDATE == "Validate user actions with the business owner."
NO_ACTION == "No immediate action required; continue routine monitoring."
TICKET == "Create/Update incident ticket and document findings."
REVIEW_RULES == "Review detection rules to reduce false positives."

\* (column == label).any(): false on a column without rows
SeriesAny(column, label) == \E k \in 1..Len(column) : column[k] = label

\* mutant: the benign rule fires as soon as one row is benign
SeriesAllAsAny(column, label) == \E k \in 1..Len(column) : column[k] = label

\* (column == label).all(): true on a column without rows
SeriesAll(column, label) == \A k \in 1..Len(column) : column[k] = label

\* lines 5-19; column is result_df["classification"]
recommend_actions(column) ==
    LET a0 == <<>>
        a1 == IF SeriesAny(column, "malicious")
              THEN Append(Append(Append(a0, ISOLATE), BLOCK), FORENSICS)
              ELSE a0
        a2 == IF SeriesAny(column, "suspicious")
              THEN Append(Append(a1, MONITOR), VALIDATE)
              ELSE a1
        a3 == IF SeriesAll(column, "benign") THEN Append(a2, NO_ACTION) ELSE a2
    IN Append(Append(a3, TICKET), REVIEW_RULES)

\* classified tables: every row carries one of the three labels of app.py:101-107
ClassifiedColumns == UNION {[1..n -> {"benign", "suspicious", "malicious"}] : n \in 0..MaxRecRows}

\* app.py:154, recs = recommend_actions(result_df)
Recommend ==
    /\ rec_pc = "classified"
    /\ recs' = recommend_actions(classification)
    /\ rec_pc' = "recommended"
    /\ UNCHANGED classification
    /\ UNCHANGED notRec

RecStart ==
    /\ classification \in ClassifiedColumns
    /\ recs = <<>>
    /\ rec_pc = "classified"

RecIdle ==
    /\ classification = <<>>
    /\ recs = <<>>
    /\ rec_pc = "idle"

-----------------------------------------------------------------------------
(* Provider lookups of several script threads of one process *)
(* Each browser session's script runs in a thread of its own; the modules  *)
(* api/abuseipdb.py and api/virustotal.py are imported once per process, so *)
(* all threads work on the same two _CACHE dicts.  Neither module takes a  *)
(* lock, so threads interleave between the statements of the functions.    *)

Threads == {"session1", "session2"}

\* the responses the providers give while threads run side by side
ThreadOutcomes == {n \in NetOutcomes : n.kind = "raise" \/ n.body = "full" \/ n.status_code = 429}

NoEntry == [status |-> "<none>"]

\* a thread outside the provider functions, having made `calls` lookups
Outside(calls) ==
    [pc |-> "outside", fn |-> "none", ip |-> None, resp |-> NoNet, ret |-> NoEntry, calls |-> calls]

KeyOf(p) == IF p = ABUSE THEN ABUSE_KEY ELSE VT_KEY

\* line 9: the thread enters the provider function with its argument
Enter(t, p, ip) ==
    /\ thread[t].pc \in {"outside", "returned"}
    /\ thread[t].calls < MaxThreadCalls
    /\ thread' = [thread EXCEPT ![t] = [pc |-> "check", fn |-> p, ip |-> ip, resp |-> NoNet,
                                       ret |-> NoEntry, calls |-> @.calls + 1]]
    /\ UNCHANGED provVars
    /\ UNCHANGED notConc

\* lines 10-13: the test of the argument and the test of the cache
CheckCache(t) ==
    /\ thread[t].pc = "check"
    /\ thread' = [thread EXCEPT ![t] =
                    IF Falsy(thread[t].ip)
                    THEN [thread[t] EXCEPT !.pc = "returned", !.ret = [status |-> "no_ip"]]
                    ELSE IF thread[t].ip \in DOMAIN _CACHE[thread[t].fn]
                    THEN [thread[t] EXCEPT !.pc = "returned",
                                           !.ret = _CACHE[thread[t].fn][thread[t].ip]]
                    ELSE [thread[t] EXCEPT !.pc = "getenv"]]
    /\ UNCHANGED provVars
    /\ UNCHANGED notConc

\* lines 15-19: the credential is read; without one the no_key entry is stored
GetEnv(t) ==
    /\ thread[t].pc = "getenv"
    /\ IF Falsy(environ[KeyOf(thread[t].fn)])
       THEN \E r \in {IF thread[t].fn = ABUSE THEN AbuseNoKey(thread[t].ip, _CACHE[ABUSE])
                                              ELSE VtNoKey(thread[t].ip, _CACHE[VT])} :
               /\ _CACHE' = [_CACHE EXCEPT ![thread[t].fn] = r.cache]
               /\ thread' = [thread EXCEPT ![t].pc = "returned", ![t].ret = r.ret]
       ELSE /\ thread' = [thread EXCEPT ![t].pc = "request"]
            /\ UNCHANGED _CACHE
    /\ UNCHANGED <<environ, netCalls, firstRes, lastCall>>
    /\ UNCHANGED notConc

\* line 23: requests.get is called and the thread waits for its outcome
Request(t, net) ==
    /\ thread[t].pc = "request"
    /\ netCalls' = [netCalls EXCEPT ![thread[t].fn] =
                       Store(@, thread[t].ip, (IF thread[t].ip \in DOMAIN @ THEN @[thread[t].ip] ELSE 0) + 1)]
    /\ thread' = [thread EXCEPT ![t].pc = "respond", ![t].resp = net]
    /\ UNCHANGED <<_CACHE, environ, firstRes, lastCall>>
    /\ UNCHANGED notConc

\* lines 24-40: the entry is built from the outcome, stored and returned
Respond(t) ==
    /\ thread[t].pc = "respond"
    /\ \E r \in {IF thread[t].fn = ABUSE
                 THEN LET a == AbuseTry(thread[t].resp)
                      IN IF a.exc THEN AbuseExcept(a.msg, thread[t].ip, _CACHE[ABUSE])
                         ELSE Returned(a.res, Store(_CACHE[ABUSE], thread[t].ip, a.res), TRUE, TRUE)
                 ELSE LET v == VtTry(thread[t].resp)
                      IN IF v.exc THEN VtExcept(v.msg, thread[t].ip, _CACHE[VT])
                         ELSE Returned(v.res, Store(_CACHE[VT], thread[t].ip, v.res), TRUE, TRUE)} :
          /\ _CACHE' = [_CACHE EXCEPT ![thread[t].fn] = r.cache]
          /\ thread' = [thread EXCEPT ![t].pc = "returned", ![t].ret = r.ret]
    /\ UNCHANGED <<environ, netCalls, firstRes, lastCall>>
    /\ UNCHANGED notConc

ThreadsStart == thread = [t \in Threads |-> Outside(0)]

ConcIdle == thread = [t \in Threads |-> Outside(MaxThreadCalls)]

-----------------------------------------------------------------------------
(* Specifications: each explores one part of the program and holds the
   variables of the other parts at rest *)

ProvIdle ==
    /\ netCalls = [p \in Providers |-> EmptyDict]
    /\ firstRes = [p \in Providers |-> EmptyDict]
    /\ lastCall = NoCall

AppIdle ==
    /\ result_df = <<>>
    /\ enable_enrich = FALSE
    /\ max_enrich = 0
    /\ pc = "idle"
    /\ top_idx = <<>>
    /\ i = 1
    /\ ip_field = 1
    /\ row_info = NoInfo
    /\ enriched_rows = <<>>
    /\ processed = <<>>
    /\ varied = VT
    /\ shadow = [cache |-> [p \in Providers |-> EmptyDict], environ |-> [k \in EnvNames |-> None],
                 row_info |-> NoInfo, enriched_rows |-> <<>>]

\* sequential lookups at the two providers, the credentials changing on reruns
Init ==
    /\ ProvInit
    /\ AppIdle
    /\ LabelIdle
    /\ CanonIdle
    /\ AlignIdle
    /\ RecIdle
    /\ ConcIdle

Next ==
    \/ \E ip \in IpArgs, net \in NetOutcomes : LookupAbuse(ip, net)
    \/ \E ip \in IpArgs, net \in NetOutcomes : LookupVT(ip, net)
    \/ \E file \in [EnvNames -> EnvValues] : load_dotenv(file)

Spec == Init /\ [][Next]_vars

\* one run of the analysis handler, beside a second run that differs in one provider
AppInit ==
    /\ AppStart
    /\ ProvIdle
    /\ (TopKInit \/ PairInit)
    /\ LabelIdle
    /\ CanonIdle
    /\ AlignIdle
    /\ RecIdle
    /\ ConcIdle

AppNext ==
    \/ SelectTopK
    \/ \E netVt, netAb, netAlt \in LoopOutcomes : EnrichField(netVt, netAb, netAlt)

SpecApp == AppInit /\ [][AppNext]_vars

\* the label mapping of one batch
LabelInit ==
    /\ LabelStart
    /\ _CACHE = [p \in Providers |-> EmptyDict]
    /\ environ = [k \in EnvNames |-> None]
    /\ ProvIdle
    /\ AppIdle
    /\ CanonIdle
    /\ AlignIdle
    /\ RecIdle
    /\ ConcIdle

LabelNext ==
    \/ \E matrix \in ProbMatrices : predict_batch(matrix)
    \/ MapToLabels

SpecLabel == LabelInit /\ [][LabelNext]_vars

\* the canonicalization of one uploaded table
CanonInit ==
    /\ CanonStart
    /\ _CACHE = [p \in Providers |-> EmptyDict]
    /\ environ = [k \in EnvNames |-> None]
    /\ ProvIdle
    /\ AppIdle
    /\ LabelIdle
    /\ AlignIdle
    /\ RecIdle
    /\ ConcIdle

CanonNext == Canonicalize

SpecCanon == CanonInit /\ [][CanonNext]_vars

\* the alignment of one feature table against one expected-name list, twice over
AlignInit ==
    /\ AlignStart
    /\ _CACHE = [p \in Providers |-> EmptyDict]
    /\ environ = [k \in EnvNames |-> None]
    /\ ProvIdle
    /\ AppIdle
    /\ LabelIdle
    /\ CanonIdle
    /\ RecIdle
    /\ ConcIdle

AlignNext ==
    \/ Align
    \/ AlignAgain

SpecAlign == AlignInit /\ [][AlignNext]_vars

\* the recommendations for one classified table
RecInit ==
    /\ RecStart
    /\ _CACHE = [p \in Providers |-> EmptyDict]
    /\ environ = [k \in EnvNames |-> None]
    /\ ProvIdle
    /\ AppIdle
    /\ LabelIdle
    /\ CanonIdle
    /\ AlignIdle
    /\ ConcIdle

RecNext == Recommend

SpecRec == RecInit /\ [][RecNext]_vars

\* the script threads of two sessions looking ips up side by side
ConcInit ==
    /\ ThreadsStart
    /\ _CACHE = [p \in Providers |-> EmptyDict]
    /\ environ \in [EnvNames -> {None, "secret"}]
    /\ ProvIdle
    /\ AppIdle
    /\ LabelIdle
    /\ CanonIdle
    /\ AlignIdle
    /\ RecIdle

ConcNext ==
    \/ \E t \in Threads, p \in Providers, ip \in IpArgs : Enter(t, p, ip)
    \/ \E t \in Threads : CheckCache(t)
    \/ \E t \in Threads : GetEnv(t)
    \/ \E t \in Threads, net \in ThreadOutcomes : Request(t, net)
    \/ \E t \in Threads : Respond(t)

SpecConc == ConcInit /\ [][ConcNext]_vars

-----------------------------------------------------------------------------
(* Claims about the provider lookups *)

LookedUpRealIp == lastCall.fn /= "none" /\ ~Falsy(lastCall.ip)

\* C1: for each provider, at most one network call is issued per distinct
\* non-empty ip, every lookup of an ip returns the entry its first lookup
\* returned, whatever its status, and a lookup of an ip looked up before issues
\* no request (nothing is retried).
C1_OneCallPerIpSameEntry ==
    /\ \A p \in Providers : \A ip \in DOMAIN netCalls[p] : netCalls[p][ip] <= 1
    /\ LookedUpRealIp =>
          /\ ~lastCall.raised
          /\ lastCall.ret = firstRes[lastCall.fn][lastCall.ip]
          /\ lastCall.seen => ~lastCall.called

\* a repeated lookup of an ip whose first lookup failed, with a credential set
C1_Witness ==
    /\ LookedUpRealIp
    /\ lastCall.seen
    /\ lastCall.ret.status = "error"
    /\ ~Falsy(lastCall.key)
    /\ netCalls[lastCall.fn][lastCall.ip] = 1
    /\ \E other \in DOMAIN netCalls[lastCall.fn] : other /= lastCall.ip

NoKeyEntry == [status |-> "no_key"]

\* C2: a lookup of a non-empty ip that is not cached, while the credential is
\* unset or empty, returns {status: no_key} without a request and caches it;
\* every later lookup of that ip at that provider returns that entry without a
\* request and without reading the credential, whatever the credential is then.
C2_NoKeyCachedForGood ==
    /\ \A p \in Providers : \A ip \in DOMAIN firstRes[p] :
          firstRes[p][ip] = NoKeyEntry =>
              /\ Calls(p, ip) = 0
              /\ ip \in DOMAIN _CACHE[p]
              /\ _CACHE[p][ip] = NoKeyEntry
    /\ LookedUpRealIp =>
          /\ (~lastCall.cached /\ Falsy(lastCall.key)) =>
                /\ ~lastCall.raised
                /\ lastCall.ret = NoKeyEntry
                /\ ~lastCall.called
                /\ lastCall.ip \in DOMAIN _CACHE[lastCall.fn]
                /\ _CACHE[lastCall.fn][lastCall.ip] = NoKeyEntry
          /\ (lastCall.seen /\ firstRes[lastCall.fn][lastCall.ip] = NoKeyEntry) =>
                /\ lastCall.ret = NoKeyEntry
                /\ ~lastCall.called
                /\ ~lastCall.getenv

\* a repeated lookup of a no_key ip after the credential has been configured
C2_Witness ==
    /\ LookedUpRealIp
    /\ lastCall.seen
    /\ lastCall.ret = NoKeyEntry
    /\ lastCall.key = "secret"

StatusOfCode == (404 :> "http_404") @@ (429 :> "http_429")
AllowedStatus == {"no_ip", "no_key", "ok", "error"} \cup {StatusOfCode[c] : c \in NonOkCodes}

\* C3: a provider lookup never lets an exception out; it returns an entry whose
\* status is one of no_ip, no_key, ok, http_<code>, error, where a 200 response
\* with a readable body gives ok, a response with another code c gives
\* http_<c>, and an exception of the request or of reading the body gives
\* error with a diagnostic string.
C3_TypedStatusNeverRaises ==
    lastCall.fn /= "none" =>
        /\ ~lastCall.raised
        /\ lastCall.ret.status \in AllowedStatus
        /\ lastCall.called =>
              /\ (lastCall.net.kind = "resp" /\ lastCall.net.status_code = 200
                    /\ lastCall.net.body /= "invalid") => lastCall.ret.status = "ok"
              /\ (lastCall.net.kind = "resp" /\ lastCall.net.status_code /= 200) =>
                    lastCall.ret.status = StatusOfCode[lastCall.net.status_code]
              /\ (lastCall.net.kind = "raise" \/ (lastCall.net.kind = "resp"
                    /\ lastCall.net.status_code = 200 /\ lastCall.net.body = "invalid")) =>
                    /\ lastCall.ret.status = "error"
                    /\ "error" \in DOMAIN lastCall.ret
                    /\ lastCall.ret.error /= ""

\* a 200 response whose body cannot be read
C3_Witness ==
    /\ lastCall.fn /= "none"
    /\ lastCall.called
    /\ lastCall.net.kind = "resp"
    /\ lastCall.net.status_code = 200
    /\ lastCall.net.body = "invalid"
    /\ lastCall.ret.status = "error"

-----------------------------------------------------------------------------
(* Claims about the analysis handler *)

Other == IF varied = VT THEN ABUSE ELSE VT
OtherPart(info) == IF varied = VT THEN info.abuse ELSE info.vt
VariedPart(info) == IF varied = VT THEN info.vt ELSE info.abuse
StringFields(row) == {f \in {"source_ip", "destination_ip"} : IsNonEmptyStr(RowGet(row, f))}

\* C4: the loop looks up both providers for every non-empty string ip of every
\* selected row (no lookup aborts it), and in two runs that differ only in one
\* provider's credential, responses, failures and cache, the other provider's
\* entries and the other provider's cache are the same.
C4_ProvidersIndependent ==
    /\ pc /= "raised"
    /\ _CACHE[Other] = shadow.cache[Other]
    /\ Len(enriched_rows) = Len(shadow.enriched_rows)
    /\ \A k \in 1..Len(enriched_rows) :
          /\ OtherPart(enriched_rows[k]) = OtherPart(shadow.enriched_rows[k])
          /\ DOMAIN enriched_rows[k].vt = StringFields(result_df[top_idx[k]])
          /\ DOMAIN enriched_rows[k].abuse = StringFields(result_df[top_idx[k]])
          /\ DOMAIN shadow.enriched_rows[k].vt = StringFields(result_df[top_idx[k]])
          /\ DOMAIN shadow.enriched_rows[k].abuse = StringFields(result_df[top_idx[k]])
          /\ \A f \in StringFields(result_df[top_idx[k]]) : \A p \in Providers :
                RowGet(result_df[top_idx[k]], f) \in DOMAIN _CACHE[p]
    /\ (pc = "loop" /\ ip_field = 2) => OtherPart(row_info) = OtherPart(shadow.row_info)
    /\ pc = "done" => Len(enriched_rows) = Len(top_idx)

\* two rows enriched, the varied provider failing in one run and without a
\* credential in the other, the other provider answering
C4_Witness ==
    /\ pc = "done"
    /\ Len(enriched_rows) = 2
    /\ \E k \in 1..2 : \E f \in DOMAIN enriched_rows[k].vt :
          /\ VariedPart(enriched_rows[k])[f].status = "error"
          /\ VariedPart(shadow.enriched_rows[k])[f].status = "no_key"
          /\ OtherPart(enriched_rows[k])[f].status = "ok"

\* C5: enrichment selects min(top_k, number of rows) rows, those of highest
\* risk_score, and takes them in descending risk_score order, rows of equal
\* risk_score in their original order; of two rows of equal score the earlier
\* one is preferred.
C5_StableTopK ==
    (pc \in {"loop", "done"} /\ enable_enrich) =>
        /\ Len(top_idx) = Min(max_enrich, Len(result_df))
        /\ \A a, b \in 1..Len(top_idx) :
              a < b => \/ result_df[top_idx[a]].risk_score > result_df[top_idx[b]].risk_score
                       \/ /\ result_df[top_idx[a]].risk_score = result_df[top_idx[b]].risk_score
                          /\ top_idx[a] < top_idx[b]
        /\ \A a \in 1..Len(top_idx) : \A u \in 1..Len(result_df) :
              (\A b \in 1..Len(top_idx) : top_idx[b] /= u) =>
                  \/ result_df[top_idx[a]].risk_score > result_df[u].risk_score
                  \/ /\ result_df[top_idx[a]].risk_score = result_df[u].risk_score
                     /\ top_idx[a] < u
        /\ \A k \in 1..Len(processed) : processed[k] = top_idx[k]
        /\ pc = "done" => processed = top_idx

-----------------------------------------------------------------------------
(* Claims about the label mapping *)

Severity(label) == CHOOSE k \in 1..3 : LABELS[k] = label

\* C6: for every row, risk_score is the maximum of the row's probabilities and
\* the label follows from risk_score alone: malicious from 0.8 on, suspicious
\* from 0.5 up to but not including 0.8, benign below; a higher score never
\* gets a lower label, and the class that attains the maximum does not matter.
C6_LadderOnMaxProbability ==
    label_pc = "done" =>
        /\ Len(risk_scores) = Len(probs)
        /\ Len(labels) = Len(probs)
        /\ \A k \in 1..Len(probs) :
              /\ \E c \in 1..3 : risk_scores[k] = probs[k][c]
              /\ \A c \in 1..3 : risk_scores[k] >= probs[k][c]
              /\ labels[k] = "malicious" <=> risk_scores[k] >= 80000
              /\ labels[k] = "suspicious" <=> (50000 <= risk_scores[k] /\ risk_scores[k] < 80000)
              /\ labels[k] = "benign" <=> risk_scores[k] < 50000
        /\ \A j, k \in 1..Len(probs) :
              /\ risk_scores[j] >= risk_scores[k] => Severity(labels[j]) >= Severity(labels[k])
              /\ risk_scores[j] = risk_scores[k] => labels[j] = labels[k]

\* a row at exactly 0.8 whose arg-max class is benign, beside a row at 0.79999
\* whose arg-max class is malicious
C6_Witness ==
    /\ label_pc = "done"
    /\ \E j, k \in 1..Len(probs) :
          /\ risk_scores[j] = 80000 /\ labels[j] = "malicious" /\ preds[j] = "benign"
          /\ risk_scores[k] = 79999 /\ labels[k] = "suspicious" /\ preds[k] = "malicious"

-----------------------------------------------------------------------------
(* Claims about canonicalize_columns *)

\* the normalized form of each header name, written out
ExpectedName ==
    ("Source IP" :> "source_ip") @@ (" SRC " :> "src") @@ ("src" :> "src") @@ ("sip" :> "sip")
    @@ ("source_ip" :> "source_ip") @@ ("dst-ip" :> "dst_ip") @@ ("note" :> "note")
ExpectedTarget == ("src" :> "source_ip") @@ ("sip" :> "source_ip") @@ ("dst_ip" :> "destination_ip")

Canonicalized == canon_pc = "canonical" /\ ~Empty(raw_df)
InNames == {ExpectedName[raw_df.cols[c].name] : c \in 1..Len(raw_df.cols)}
OutNames == {user_df.cols[c].name : c \in 1..Len(user_df.cols)}
AliasesOf(t) == {k \in 1..Len(ALIASES) : ALIASES[k][2] = t}

\* no column is dropped, added or moved, and every column keeps its values
ColumnsKeepValues ==
    /\ user_df.nrows = raw_df.nrows
    /\ Len(user_df.cols) = Len(raw_df.cols)
    /\ \A c \in 1..Len(raw_df.cols) : user_df.cols[c].data = raw_df.cols[c].data

\* C7 as the spec states it: with an alias column and its canonical column both
\* in a non-empty table, the output has the canonical column with its values
\* and does not have the alias column.
C7_AliasDropped ==
    Canonicalized =>
        \A k \in 1..Len(ALIASES) :
            (ALIASES[k][1] \in InNames /\ ALIASES[k][2] \in InNames) =>
                /\ \E c \in 1..Len(user_df.cols) :
                      /\ user_df.cols[c].name = ALIASES[k][2]
                      /\ ExpectedName[raw_df.cols[user_df.cols[c].data].name] = ALIASES[k][2]
                /\ ALIASES[k][1] \notin OutNames

\* C7, amended: with an alias column and its canonical column both in a
\* non-empty table, the output has the canonical column with its values
\* unchanged and still has the alias column, under its alias name and with its
\* values unchanged; the alias column neither replaces nor renames the
\* canonical column.
C7_CanonicalKeptAliasKept ==
    Canonicalized =>
        /\ ColumnsKeepValues
        /\ \A k \in 1..Len(ALIASES) :
              (ALIASES[k][1] \in InNames /\ ALIASES[k][2] \in InNames) =>
                  \A c \in 1..Len(raw_df.cols) :
                      /\ ExpectedName[raw_df.cols[c].name] = ALIASES[k][2] =>
                            user_df.cols[c].name = ALIASES[k][2]
                      /\ ExpectedName[raw_df.cols[c].name] = ALIASES[k][1] =>
                            user_df.cols[c].name = ALIASES[k][1]

\* a table with a row, a src column and a source_ip column, canonicalized
C7_Witness ==
    /\ Canonicalized
    /\ {"src", "source_ip"} \subseteq {raw_df.cols[c].name : c \in 1..Len(raw_df.cols)}
    /\ {"src", "source_ip"} \subseteq OutNames

\* the alias of entry k is the one the loop renames: its target is not a column
\* and no alias of the same target listed before it is a column
Renamed(k) ==
    /\ ALIASES[k][1] \in InNames
    /\ ALIASES[k][2] \notin InNames
    /\ \A j \in AliasesOf(ALIASES[k][2]) : j < k => ALIASES[j][1] \notin InNames

\* C8 as the spec states it: a non-empty table with an alias column comes out
\* with the canonical target present, the alias name absent and the column's
\* values intact, also when several aliases of one target are present.
C8_EveryAliasRenamed ==
    Canonicalized =>
        \A k \in 1..Len(ALIASES) :
            ALIASES[k][1] \in InNames =>
                /\ ALIASES[k][2] \in OutNames
                /\ ALIASES[k][1] \notin OutNames
                /\ \A c \in 1..Len(raw_df.cols) :
                      ExpectedName[raw_df.cols[c].name] = ALIASES[k][1] =>
                          /\ user_df.cols[c].name = ALIASES[k][2]
                          /\ user_df.cols[c].data = raw_df.cols[c].data

\* C8, amended: a non-empty table with an alias column, without the canonical
\* target column and without a column of an alias of the same target that the
\* alias table lists earlier, comes out with that column named by the target,
\* the alias name absent and the values intact.  When several aliases of one
\* target are present only the one listed first is renamed; the others, and
\* any alias whose target is already a column, keep their alias names.
C8_FirstListedAliasRenamed ==
    Canonicalized =>
        /\ ColumnsKeepValues
        /\ \A n \in DOMAIN ExpectedTarget : \E k \in 1..Len(ALIASES) :
              ALIASES[k][1] = n /\ ALIASES[k][2] = ExpectedTarget[n]
        /\ \A k \in 1..Len(ALIASES) :
              ALIASES[k][1] \in InNames =>
                  IF Renamed(k)
                  THEN /\ ALIASES[k][2] \in OutNames
                       /\ ALIASES[k][1] \notin OutNames
                       /\ \A c \in 1..Len(raw_df.cols) :
                             ExpectedName[raw_df.cols[c].name] = ALIASES[k][1] =>
                                 user_df.cols[c].name = ALIASES[k][2]
                  ELSE \A c \in 1..Len(raw_df.cols) :
                             ExpectedName[raw_df.cols[c].name] = ALIASES[k][1] =>
                                 user_df.cols[c].name = ALIASES[k][1]

\* two aliases of source_ip in one table: " SRC " is renamed, sip keeps its name
C8_Witness ==
    /\ Canonicalized
    /\ {raw_df.cols[c].name : c \in 1..Len(raw_df.cols)} = {" SRC ", "sip"}
    /\ OutNames = {"source_ip", "sip"}
    /\ \A c \in 1..Len(raw_df.cols) :
          raw_df.cols[c].name = " SRC " => user_df.cols[c].name = "source_ip"

-----------------------------------------------------------------------------
(* Claims about align_features *)

\* the cell of the column labelled col, in row r of the table X
CellOf(X, col, r) == ColumnOf(X, col).cells[r]

\* C9: align_features(X, F) has exactly len(F) columns, named and ordered as F;
\* a column of F that X lacks is all zeros, a column of F that X has keeps X's
\* values with nulls replaced by 0, and no column of X outside F remains.  The
\* row count is that of X.
C9_AlignedToFeatureList ==
    align_pc \in {"aligned", "realigned"} =>
        /\ aligned.nrows = processed_df.nrows
        /\ Len(aligned.cols) = Len(model_feature_names)
        /\ \A k \in 1..Len(model_feature_names) :
              /\ aligned.cols[k].name = model_feature_names[k]
              /\ Len(aligned.cols[k].cells) = processed_df.nrows
              /\ \A r \in 1..processed_df.nrows :
                    IF model_feature_names[k] \in FrameColumns(processed_df)
                    THEN aligned.cols[k].cells[r] =
                            IF CellOf(processed_df, model_feature_names[k], r).null
                            THEN Num(0)
                            ELSE CellOf(processed_df, model_feature_names[k], r)
                    ELSE aligned.cols[k].cells[r] = Num(0)
        /\ \A c \in FrameColumns(processed_df) :
              c \notin FrameColumns(aligned) <=>
                  \A k \in 1..Len(model_feature_names) : model_feature_names[k] /= c

\* a table with a row, aligned to a list that names a column it lacks before a
\* column it has, whose cell is null, and that leaves out another of its columns
C9_Witness ==
    /\ align_pc = "aligned"
    /\ processed_df.nrows = 1
    /\ Len(model_feature_names) = 2
    /\ model_feature_names[1] \notin FrameColumns(processed_df)
    /\ model_feature_names[2] \in FrameColumns(processed_df)
    /\ CellOf(processed_df, model_feature_names[2], 1).null
    /\ processed_df.cols[1].name /= model_feature_names[2]
    /\ aligned.cols[1].cells[1] = Num(0)
    /\ aligned.cols[2].cells[1] = Num(0)

\* C10: aligning the aligned table against the same list gives the aligned
\* table again, and no call of align_features changes the table it is given.
C10_IdempotentInputUntouched ==
    [][/\ processed_df' = processed_df
       /\ align_pc = "aligned" => (aligned' = aligned /\ realigned' = aligned)]_vars

\* a table that the first alignment reshapes (a column added, a column dropped,
\* a null filled) has been aligned a second time
C10_Witness ==
    /\ align_pc = "realigned"
    /\ realigned = aligned
    /\ aligned /= processed_df
    /\ processed_df.nrows = 1
    /\ \E k \in 1..Len(model_feature_names) :
          model_feature_names[k] \notin FrameColumns(processed_df)
    /\ \E c \in FrameColumns(processed_df) : c \notin FrameColumns(aligned)
    /\ \E k \in 1..Len(processed_df.cols) :
          /\ processed_df.cols[k].name \in FrameColumns(aligned)
          /\ processed_df.cols[k].cells[1].null

-----------------------------------------------------------------------------
(* Claims about recommend_actions *)

\* the labels that occur in the classified table
LabelsPresent == {classification[k] : k \in 1..Len(classification)}

\* C11: the recommendations are, in this order, the three isolation, blocking
\* and forensics strings if a row is malicious, the two monitoring and
\* owner-validation strings if a row is suspicious, the "no immediate action"
\* string if all rows are benign (as in a table without rows), and always the
\* ticket and rule-review strings as the last two entries; an all-benign table
\* gives the "no immediate action" string first; tables in which the same
\* labels occur get the same recommendations, whatever the row order and counts.
C11_RulesInOrder ==
    rec_pc = "recommended" =>
        /\ recs = (IF "malicious" \in LabelsPresent THEN <<ISOLATE, BLOCK, FORENSICS>> ELSE <<>>)
                  \o (IF "suspicious" \in LabelsPresent THEN <<MONITOR, VALIDATE>> ELSE <<>>)
                  \o (IF LabelsPresent \subseteq {"benign"} THEN <<NO_ACTION>> ELSE <<>>)
                  \o <<TICKET, REVIEW_RULES>>
        /\ Len(recs) >= 3
        /\ recs[Len(recs) - 1] = TICKET /\ recs[Len(recs)] = REVIEW_RULES
        /\ LabelsPresent \subseteq {"benign"} => recs = <<NO_ACTION, TICKET, REVIEW_RULES>>
        /\ \A other \in ClassifiedColumns :
              {other[k] : k \in 1..Len(other)} = LabelsPresent => recommend_actions(other) = recs

\* a table of several rows with a suspicious row before a malicious row and a
\* benign row, for which all five alert strings and no "no immediate action"
\* string come out
C11_Witness ==
    /\ rec_pc = "recommended"
    /\ Len(classification) >= 3
    /\ classification[1] = "suspicious"
    /\ LabelsPresent = {"benign", "suspicious", "malicious"}
    /\ recs = <<ISOLATE, BLOCK, FORENSICS, MONITOR, VALIDATE, TICKET, REVIEW_RULES>>

-----------------------------------------------------------------------------
(* Claims about concurrent provider lookups *)

\* C12: when threads of one process look the same ip up at the same provider
\* side by side, under every interleaving at most one network call is issued
\* per ip and provider, and the callers that have returned got the same entry.
C12_OneCallUnderInterleaving ==
    /\ \A p \in Providers, ip \in IPs : Calls(p, ip) <= 1
    /\ \A t, u \in Threads :
          (/\ thread[t].pc = "returned" /\ thread[u].pc = "returned"
           /\ thread[t].fn = thread[u].fn /\ thread[t].ip = thread[u].ip)
             => thread[t].ret = thread[u].ret

-----------------------------------------------------------------------------
(* Claims about lookups without an ip *)

\* C13: a provider lookup whose ip is empty or absent returns {status: no_ip}
\* and does nothing else: the provider caches and the request counts are what
\* they were, no request is issued and the credential is not read, whatever
\* the caches hold and whatever the credential is.
C13_NoIpShortCircuits ==
    [][(lastCall'.fn \in Providers /\ lastCall'.ip \in {"", None}) =>
          /\ lastCall'.ret = [status |-> "no_ip"]
          /\ ~lastCall'.raised
          /\ ~lastCall'.called
          /\ ~lastCall'.getenv
          /\ _CACHE' = _CACHE
          /\ netCalls' = netCalls
          /\ firstRes' = firstRes]_vars

\* a lookup of the empty string at a provider whose credential is set and whose
\* cache holds an entry obtained over the network
C13_Witness ==
    /\ lastCall.fn \in Providers
    /\ lastCall.ip = ""
    /\ lastCall.ret = [status |-> "no_ip"]
    /\ lastCall.key = "secret"
    /\ \E ip \in IPs : ip \in DOMAIN _CACHE[lastCall.fn] /\ Calls(lastCall.fn, ip) = 1
    /\ "" \notin DOMAIN _CACHE[lastCall.fn]

=============================================================================
